---- MODULE Spec2Model ----
(***************************************************************************)
(* hyperbuilder (index.js): a Builder collects schema, collection and      *)
(* dispatch declarations into Namespaces; the process-wide beforeExit      *)
(* handler feeds every Builder to the hyperschema, hyperdb and             *)
(* hyperdispatch compilers.                                                *)
(*                                                                         *)
(* JavaScript strings are sequences of one-character strings, so that      *)
(* split, startsWith, substring and join are computed, not assumed.        *)
(* Objects live in heaps (sequences); a reference is an index, which       *)
(* gives objects the identity the code relies on.                          *)
(***************************************************************************)
EXTENDS Integers, Sequences, FiniteSets, TLC

\* ---- bounds of the model ------------------------------------------------
MaxBuilders == 1      \* Builders of a script whose declarations are explored in full
MaxExitBuilders == 2  \* Builders of a process whose beforeExit handler is explored
MaxCalls == 3         \* API calls made by the script on its Builders and schemas
MaxExits == 2         \* deliveries of the beforeExit event
MaxLen == 4           \* length of the strings given to the resolver alone
MaxResolves == 3      \* names given to the resolver alone
MaxFieldCalls == 5    \* API calls made by a script that declares schemas and fields

\* ---- strings -------------------------------------------------------------
Slash == "/"
At == "@"
Alphabet == {At, Slash, "a"}

default == <<"d", "e", "f", "a", "u", "l", "t">>
uint == <<"u", "i", "n", "t">>
string == <<"s", "t", "r", "i", "n", "g">>

\* the type tags for which a Schema gets a field method: two of those the
\* SchemaBuilder typedef lists
SupportedTypes == {uint, string}

\* names given to schema(), collection() and dispatch()
DeclNames ==
  { <<"@", "h", "/", "u">>, <<"u">> }

\* names given to the field methods and to struct()
FieldNames == { <<"i", "d">>, <<"a">> }

\* schema references given as strings to struct() and dispatch()
Refs == { <<"@", "h", "/", "u">> }

\* argument lists given to key(...)
KeyArgs == { <<<<"i", "d">>>>, <<<<"a">>, <<"i", "d">>>> }

\* every string over Alphabet of length at most n
RECURSIVE StringsUpTo(_)
StringsUpTo(n) ==
  IF n = 0 THEN {<<>>}
  ELSE LET shorter == StringsUpTo(n - 1)
       IN  shorter \cup {Append(s, c) : s \in {t \in shorter : Len(t) = n - 1}, c \in Alphabet}

\* String.prototype.split("/")
RECURSIVE Split(_)
Split(s) ==
  IF \A i \in 1..Len(s) : s[i] # Slash THEN <<s>>
  ELSE LET k == CHOOSE i \in 1..Len(s) : s[i] = Slash /\ \A j \in 1..(i - 1) : s[j] # Slash
       IN  <<SubSeq(s, 1, k - 1)>> \o Split(SubSeq(s, k + 1, Len(s)))

\* Array.prototype.join("/")
RECURSIVE Join(_)
Join(parts) ==
  IF parts = <<>> THEN <<>>
  ELSE IF Len(parts) = 1 THEN parts[1]
  ELSE parts[1] \o <<Slash>> \o Join(Tail(parts))

\* String.prototype.startsWith("@")
StartsWithAt(s) == Len(s) >= 1 /\ s[1] = At

\* mutant: the leading "@" is kept
SubstringNone(s) == s

\* String.prototype.substring(1)
Substring1(s) == IF s = <<>> THEN <<>> ELSE Tail(s)

\* ---- state ---------------------------------------------------------------
VARIABLES
  builders,     \* the module-level list of Builders, in creation order
  nsHeap,       \* Namespace objects
  schemaHeap,   \* Schema and CollectionSchema objects
  collHeap,     \* Collection objects
  dispHeap,     \* Dispatch objects
  stack,        \* the library calls waiting for a build callback to return
  exc,          \* an exception is propagating
  phase,        \* "script", "exit" (beforeExit handler running), "idle", "crashed"
  bi,           \* beforeExit handler: index of the Builder being built
  bpc,          \* beforeExit handler: pipeline _build is about to run
  exits,        \* deliveries of beforeExit so far
  calls,        \* the calls received by the three external compilers, in order
  trace,        \* the API calls made by the script, in order of invocation
  budget,       \* the number of API calls the script makes at most
  resIn,        \* resolver alone: the names given, in order
  resOut        \* resolver alone: what _extractNamespace returned for each

heapVars == <<builders, nsHeap, schemaHeap, collHeap, dispHeap>>
exitVars == <<phase, bi, bpc, exits, calls>>
resVars == <<resIn, resOut>>
vars == <<builders, nsHeap, schemaHeap, collHeap, dispHeap, stack, exc, phase,
          bi, bpc, exits, calls, trace, budget, resIn, resOut>>

\* the object graph as one value, so that constructors compose
Heap ==
  [builders |-> builders, nsHeap |-> nsHeap, schemaHeap |-> schemaHeap,
   collHeap |-> collHeap, dispHeap |-> dispHeap]

SetHeap(H) ==
  /\ builders' = H.builders
  /\ nsHeap' = H.nsHeap
  /\ schemaHeap' = H.schemaHeap
  /\ collHeap' = H.collHeap
  /\ dispHeap' = H.dispHeap

\* ---- objects -------------------------------------------------------------
\* mutant: the type is not stored
SchemaFieldUntyped(name, type) == [name |-> name, type |-> <<>>, required |-> TRUE]

\* new SchemaField(name, type)
SchemaField(name, type) == [name |-> name, type |-> type, required |-> TRUE]

\* new Namespace(builder, name)
Namespace(builder, name) ==
  [builder |-> builder, name |-> name, schemas |-> <<>>, collections |-> <<>>,
   dispatches |-> <<>>]

\* Map.prototype.get on a Builder's namespaces: the Namespace, or 0 for undefined
MapGet(map, key) ==
  IF \E i \in 1..Len(map) : map[i].key = key
  THEN map[CHOOSE i \in 1..Len(map) : map[i].key = key].value
  ELSE 0

\* Map.prototype.set: an existing key keeps its position
MapSet(map, key, value) ==
  IF \E i \in 1..Len(map) : map[i].key = key
  THEN [i \in 1..Len(map) |-> IF map[i].key = key THEN [key |-> key, value |-> value] ELSE map[i]]
  ELSE Append(map, [key |-> key, value |-> value])

\* Map.prototype.values(): in insertion order
MapValues(map) == [i \in 1..Len(map) |-> map[i].value]

\* new Builder(spec); builders.push(builder)
NewBuilderIn(H) ==
  LET b == Len(H.builders) + 1
      ns == Len(H.nsHeap) + 1
  IN  [H EXCEPT
        !.nsHeap = Append(@, Namespace(b, default)),
        !.builders = Append(@, [spec |-> b, defaultNs |-> ns,
                                namespaces |-> MapSet(<<>>, default, ns)])]

\* mutant: the Map is not consulted, every "@ns/..." name makes a Namespace
ExtractNamespaceAlwaysNew(H, b, name) ==
  LET parts == Split(name)
  IN  IF StartsWithAt(parts[1])
      THEN LET nsName == Substring1(parts[1])
               ns == Len(H.nsHeap) + 1
           IN  [namespace |-> ns, name |-> Join(Tail(parts)),
                heap |-> [H EXCEPT
                   !.nsHeap = Append(@, Namespace(b, nsName)),
                   !.builders[b].namespaces = MapSet(@, nsName, ns)]]
      ELSE [namespace |-> H.builders[b].defaultNs, name |-> name, heap |-> H]

\* Builder._extractNamespace(name): the Namespace, the local name, the heap after
ExtractNamespace(H, b, name) ==
  LET parts == Split(name)
  IN  IF StartsWithAt(parts[1])
      THEN LET nsName == Substring1(parts[1])
               local == Join(Tail(parts))
               found == MapGet(H.builders[b].namespaces, nsName)
           IN  IF found # 0
               THEN [namespace |-> found, name |-> local, heap |-> H]
               ELSE LET ns == Len(H.nsHeap) + 1
                    IN  [namespace |-> ns, name |-> local,
                         heap |-> [H EXCEPT
                            !.nsHeap = Append(@, Namespace(b, nsName)),
                            !.builders[b].namespaces = MapSet(@, nsName, ns)]]
      ELSE [namespace |-> H.builders[b].defaultNs, name |-> name, heap |-> H]

\* Schema.fqn
Fqn(H, s) ==
  <<At>> \o H.nsHeap[H.schemaHeap[s].namespace].name \o <<Slash>> \o H.schemaHeap[s].name

\* mutant: unshift instead of push onto namespace.schemas
SchemaUnshifted(H, namespace, name, collection) ==
  LET s == Len(H.schemaHeap) + 1
  IN  [H EXCEPT
        !.schemaHeap = Append(@, [namespace |-> namespace, name |-> name,
                                  compact |-> FALSE, fields |-> <<>>,
                                  collection |-> collection]),
        !.nsHeap[namespace].schemas = <<s>> \o @]

\* mutant: the constructor does not push the Schema onto namespace.schemas
SchemaUnregistered(H, namespace, name, collection) ==
  [H EXCEPT
    !.schemaHeap = Append(@, [namespace |-> namespace, name |-> name,
                              compact |-> FALSE, fields |-> <<>>,
                              collection |-> collection])]

\* new Schema(namespace, name); collection is 0 unless it is a CollectionSchema
Schema(H, namespace, name, collection) ==
  LET s == Len(H.schemaHeap) + 1
  IN  [H EXCEPT
        !.schemaHeap = Append(@, [namespace |-> namespace, name |-> name,
                                  compact |-> FALSE, fields |-> <<>>,
                                  collection |-> collection]),
        !.nsHeap[namespace].schemas = Append(@, s)]

\* mutant: the Collection is not pushed onto namespace.collections
CollectionUnlisted(H, namespace, name) ==
  LET c == Len(H.collHeap) + 1
      s == Len(H.schemaHeap) + 1
      H1 == Schema(H, namespace, name, c)
  IN  [H1 EXCEPT
        !.collHeap = Append(@, [schema |-> s, name |-> name, indexes |-> <<>>,
                                key |-> <<>>]),
        !.nsHeap[namespace].schemas = Append(@, s)]

\* new Collection(namespace, name)
Collection(H, namespace, name) ==
  LET c == Len(H.collHeap) + 1
      s == Len(H.schemaHeap) + 1
      H1 == Schema(H, namespace, name, c)
  IN  [H1 EXCEPT
        !.collHeap = Append(@, [schema |-> s, name |-> name, indexes |-> <<>>,
                                key |-> <<>>]),
        !.nsHeap[namespace].schemas = Append(@, s),
        !.nsHeap[namespace].collections = Append(@, c)]

\* mutant: the Dispatch is not pushed onto namespace.dispatches
DispatchUnregistered(H, namespace, name, requestType) ==
  [H EXCEPT !.dispHeap = Append(@, [name |-> name, requestType |-> requestType])]

\* new Dispatch(namespace, name, requestType)
Dispatch(H, namespace, name, requestType) ==
  LET d == Len(H.dispHeap) + 1
  IN  [H EXCEPT
        !.dispHeap = Append(@, [name |-> name, requestType |-> requestType]),
        !.nsHeap[namespace].dispatches = Append(@, d)]

\* mutant: unshift instead of push
PushFieldFront(H, s, field) == [H EXCEPT !.schemaHeap[s].fields = <<field>> \o @]

\* this.fields.push(field)
PushField(H, s, field) == [H EXCEPT !.schemaHeap[s].fields = Append(@, field)]

\* mutant: the parent's name is left out
StructNameFlat(parentName, name) == name

\* [this.name, name].join("/"): the name of a nested inline schema
StructName(parentName, name) == Join(<<parentName, name>>)

\* ---- the script: declarations and build callbacks -------------------------
Init ==
  /\ builders = <<>>
  /\ nsHeap = <<>>
  /\ schemaHeap = <<>>
  /\ collHeap = <<>>
  /\ dispHeap = <<>>
  /\ stack = <<>>
  /\ exc = FALSE
  /\ phase = "script"
  /\ bi = 0
  /\ bpc = "none"
  /\ exits = 0
  /\ calls = <<>>
  /\ trace = <<>>
  /\ budget = MaxCalls
  /\ resIn = <<>>
  /\ resOut = <<>>

Running == phase = "script" /\ ~exc

\* a library call waiting for its callback; call is its index in trace
Frame(kind, schema, namespace, name, parent) ==
  [kind |-> kind, schema |-> schema, namespace |-> namespace, name |-> name,
   parent |-> parent, call |-> Len(trace) + 1]

\* the rank of the next call to return among the calls that have returned
NextRet == 1 + Cardinality({i \in 1..Len(trace) : trace[i].ret > 0})

\* an API call of the script, as invoked: the operation, the Builder or schema
\* it is called on, its arguments, the schema it constructs (0: none) and the
\* rank of its return (0: it has not returned)
Call(op, on, name, arg, made, ret) ==
  [op |-> op, on |-> on, name |-> name, arg |-> arg, made |-> made, ret |-> ret]

\* the schemas whose build callback is running: the callback's own parameter
\* and the parameters of the enclosing callbacks, which its closure can reach
InScope == {stack[i].schema : i \in 1..Len(stack)}

\* the script has calls left to make
RoomForCall == Len(trace) < budget

\* module.exports(spec), in a process of at most max Builders
NewBuilder(max) ==
  /\ Running
  /\ stack = <<>>
  /\ Len(builders) < max
  /\ SetHeap(NewBuilderIn(Heap))
  /\ UNCHANGED <<budget, stack, exc, exitVars, trace, resVars>>

\* Builder.schema(name, cb), up to the call of cb
SchemaCall(b, name) ==
  /\ Running
  /\ stack = <<>>
  /\ RoomForCall
  /\ LET r == ExtractNamespace(Heap, b, name)
         s == Len(schemaHeap) + 1
     IN  /\ SetHeap(Schema(r.heap, r.namespace, r.name, 0))
         /\ stack' = Append(stack, Frame("schema", s, r.namespace, r.name, 0))
         /\ trace' = Append(trace, Call("schema", b, name, <<>>, s, 0))
  /\ UNCHANGED <<budget, exc, exitVars, resVars>>

\* Builder.collection(name, cb), up to the call of cb
CollectionCall(b, name) ==
  /\ Running
  /\ stack = <<>>
  /\ RoomForCall
  /\ LET r == ExtractNamespace(Heap, b, name)
         s == Len(schemaHeap) + 1
     IN  /\ SetHeap(Collection(r.heap, r.namespace, r.name))
         /\ stack' = Append(stack, Frame("collection", s, r.namespace, r.name, 0))
         /\ trace' = Append(trace, Call("collection", b, name, <<>>, s, 0))
  /\ UNCHANGED <<budget, exc, exitVars, resVars>>

\* Builder.dispatch(name, cb) with a string cb
DispatchString(b, name, ref) ==
  /\ Running
  /\ stack = <<>>
  /\ RoomForCall
  /\ LET r == ExtractNamespace(Heap, b, name)
     IN  SetHeap(Dispatch(r.heap, r.namespace, r.name, ref))
  /\ trace' = Append(trace, Call("dispatch", b, name, ref, 0, NextRet))
  /\ UNCHANGED <<budget, stack, exc, exitVars, resVars>>

\* Builder.dispatch(name, cb) with a callback, up to the call of cb
DispatchCallback(b, name) ==
  /\ Running
  /\ stack = <<>>
  /\ RoomForCall
  /\ LET r == ExtractNamespace(Heap, b, name)
         s == Len(schemaHeap) + 1
     IN  /\ SetHeap(Schema(r.heap, r.namespace, r.name, 0))
         /\ stack' = Append(stack, Frame("dispatch", s, r.namespace, r.name, 0))
         /\ trace' = Append(trace, Call("dispatchCb", b, name, <<>>, s, 0))
  /\ UNCHANGED <<budget, exc, exitVars, resVars>>

\* schema[type](name), the field method the Schema constructor installs
TypeMethod(s, type, name) ==
  /\ Running
  /\ s \in InScope
  /\ RoomForCall
  /\ SetHeap(PushField(Heap, s, SchemaField(name, type)))
  /\ trace' = Append(trace, Call("field", s, name, type, 0, NextRet))
  /\ UNCHANGED <<budget, stack, exc, exitVars, resVars>>

\* Schema.struct(name, cb) with a string cb
StructString(s, name, ref) ==
  /\ Running
  /\ s \in InScope
  /\ RoomForCall
  /\ SetHeap(PushField(Heap, s, SchemaField(name, ref)))
  /\ trace' = Append(trace, Call("struct", s, name, ref, 0, NextRet))
  /\ UNCHANGED <<budget, stack, exc, exitVars, resVars>>

\* Schema.struct(name, cb) with a callback, up to the call of cb
StructCallback(s, name) ==
  /\ Running
  /\ s \in InScope
  /\ RoomForCall
  /\ LET n == Len(schemaHeap) + 1
         namespace == schemaHeap[s].namespace
     IN  /\ SetHeap(Schema(Heap, namespace, StructName(schemaHeap[s].name, name), 0))
         /\ stack' = Append(stack, Frame("struct", n, namespace, name, s))
         /\ trace' = Append(trace, Call("structCb", s, name, <<>>, n, 0))
  /\ UNCHANGED <<budget, exc, exitVars, resVars>>

\* mutant: a key that was set is kept
KeyCallFirstWins(H, s, key) ==
  [H EXCEPT !.collHeap[H.schemaHeap[s].collection].key = IF @ = <<>> THEN key ELSE @]

\* this.collection.key = key, key being the array of the arguments
KeyCall(H, s, key) == [H EXCEPT !.collHeap[H.schemaHeap[s].collection].key = key]

\* CollectionSchema.key(...key)
Key(s, key) ==
  /\ Running
  /\ s \in InScope
  /\ schemaHeap[s].collection # 0
  /\ RoomForCall
  /\ SetHeap(KeyCall(Heap, s, key))
  /\ trace' = Append(trace, Call("key", s, <<>>, key, 0, NextRet))
  /\ UNCHANGED <<budget, stack, exc, exitVars, resVars>>

\* mutant: every field of the schema becomes optional
OptionalCallAll(H, s, i) ==
  [heap |-> [H EXCEPT !.schemaHeap[s].fields =
                        [k \in 1..Len(@) |-> [@[k] EXCEPT !.required = FALSE]]],
   returns |-> [schema |-> s, index |-> i]]

\* what field.optional() does, field being the i-th field of s (fields are only
\* ever pushed, so schema and position identify the SchemaField object): the
\* heap after, and the object returned
OptionalCall(H, s, i) ==
  [heap |-> [H EXCEPT !.schemaHeap[s].fields[i].required = FALSE],
   returns |-> [schema |-> s, index |-> i]]

\* SchemaField.optional() on the i-th field of s
Optional(s, i) ==
  /\ Running
  /\ s \in InScope
  /\ i \in 1..Len(schemaHeap[s].fields)
  /\ RoomForCall
  /\ LET r == OptionalCall(Heap, s, i)
     IN  /\ SetHeap(r.heap)
         /\ trace' = Append(trace,
              [op |-> "optional", on |-> s, name |-> schemaHeap[s].fields[i].name,
               arg |-> i, made |-> 0, ret |-> NextRet, returns |-> r.returns])
  /\ UNCHANGED <<budget, stack, exc, exitVars, resVars>>

\* what evaluating schema.compact(value) does: the constructor's
\* this.compact = false is an own property that hides Schema.prototype.compact,
\* so the callee is the boolean false and the call throws a TypeError
CompactCall(H, s, value) == [heap |-> H, throws |-> TRUE]

\* schema.compact(value) in a build callback
Compact(s, value) ==
  /\ Running
  /\ s \in InScope
  /\ RoomForCall
  /\ LET r == CompactCall(Heap, s, value)
     IN  /\ SetHeap(r.heap)
         /\ exc' = r.throws
         /\ trace' = Append(trace, Call("compact", s, <<>>, value, 0,
                                         IF r.throws THEN 0 ELSE NextRet))
  /\ UNCHANGED <<budget, stack, exitVars, resVars>>

\* what the library call does once its callback has returned
AfterCallback(H, f) ==
  IF f.kind = "dispatch" THEN Dispatch(H, f.namespace, f.name, Fqn(H, f.schema))
  ELSE IF f.kind = "struct" THEN PushField(H, f.parent, SchemaField(f.name, Fqn(H, f.schema)))
  ELSE H

\* the innermost build callback returns and the library call completes
Return ==
  /\ Running
  /\ stack # <<>>
  /\ SetHeap(AfterCallback(Heap, stack[Len(stack)]))
  /\ stack' = SubSeq(stack, 1, Len(stack) - 1)
  /\ trace' = [trace EXCEPT ![stack[Len(stack)].call].ret = NextRet]
  /\ UNCHANGED <<budget, exc, exitVars, resVars>>

\* the build callback throws
Throw ==
  /\ Running
  /\ stack # <<>>
  /\ exc' = TRUE
  /\ UNCHANGED <<budget, heapVars, stack, exitVars, trace, resVars>>

\* mutant: what follows cb(schema) runs although cb threw
AfterThrowRegisters(H, f) == AfterCallback(H, f)

\* what the library call does once its callback has thrown: struct, schema,
\* collection and dispatch have no handler, so what follows cb(schema) does
\* not run
AfterThrow(H, f) == H

\* the exception leaves the innermost library call
Unwind ==
  /\ phase = "script" /\ exc
  /\ stack # <<>>
  /\ SetHeap(AfterThrow(Heap, stack[Len(stack)]))
  /\ stack' = SubSeq(stack, 1, Len(stack) - 1)
  /\ UNCHANGED <<budget, exc, exitVars, trace, resVars>>

\* a try/catch of the script, around the throwing call, catches the exception
Catch ==
  /\ phase = "script" /\ exc
  /\ exc' = FALSE
  /\ UNCHANGED <<budget, heapVars, stack, exitVars, trace, resVars>>

\* nothing catches it: the process dies and beforeExit is not emitted
Crash ==
  /\ phase = "script" /\ exc
  /\ stack = <<>>
  /\ phase' = "crashed"
  /\ UNCHANGED <<budget, heapVars, stack, exc, bi, bpc, exits, calls, trace, resVars>>

\* ---- the beforeExit handler: Builder._build for every Builder ------------
\* a call received by one of the external compilers
Ev(pipe, op, b, ns, def) ==
  [pipe |-> pipe, op |-> op, builder |-> b, run |-> exits, ns |-> ns, def |-> def]

RECURSIVE Flatten(_)
Flatten(seqs) == IF seqs = <<>> THEN <<>> ELSE seqs[1] \o Flatten(Tail(seqs))

\* buildSchema.register({name, compact, fields}) for every schema of a namespace
SchemaRegistrations(H, b, n) ==
  [i \in 1..Len(H.nsHeap[n].schemas) |->
     LET schema == H.schemaHeap[H.nsHeap[n].schemas[i]]
     IN  Ev("schema", "register", b, H.nsHeap[n].name,
            [name |-> schema.name, compact |-> schema.compact, fields |-> schema.fields])]

\* mutant: the schema reference without the namespace
CollectionRegistrationsUnqualified(H, b, n) ==
  [i \in 1..Len(H.nsHeap[n].collections) |->
     LET collection == H.collHeap[H.nsHeap[n].collections[i]]
     IN  Ev("db", "register", b, H.nsHeap[n].name,
            [name |-> collection.name, schema |-> collection.name,
             key |-> collection.key])]

\* db.collections.register({name, schema, key}) for every collection of a namespace
CollectionRegistrations(H, b, n) ==
  [i \in 1..Len(H.nsHeap[n].collections) |->
     LET collection == H.collHeap[H.nsHeap[n].collections[i]]
     IN  Ev("db", "register", b, H.nsHeap[n].name,
            [name |-> collection.name,
             schema |-> <<At>> \o H.nsHeap[n].name \o <<Slash>> \o collection.name,
             key |-> collection.key])]

\* dispatchNs.register({name, requestType}) for every dispatch of a namespace
DispatchRegistrations(H, b, n) ==
  [i \in 1..Len(H.nsHeap[n].dispatches) |->
     LET dispatch == H.dispHeap[H.nsHeap[n].dispatches[i]]
     IN  Ev("dispatch", "register", b, H.nsHeap[n].name,
            [name |-> dispatch.name, requestType |-> dispatch.requestType])]

Registrations(pipe, H, b, n) ==
  IF pipe = "schema" THEN SchemaRegistrations(H, b, n)
  ELSE IF pipe = "db" THEN CollectionRegistrations(H, b, n)
  ELSE DispatchRegistrations(H, b, n)

\* one pipeline of _build: from, then per namespace (in the Map's order)
\* namespace and its registrations, then toDisk
Pipeline(pipe, H, b) ==
  LET nss == MapValues(H.builders[b].namespaces)
  IN  <<Ev(pipe, "from", b, <<>>, <<>>)>>
      \o Flatten([i \in 1..Len(nss) |->
                    <<Ev(pipe, "namespace", b, H.nsHeap[nss[i]].name, <<>>)>>
                    \o Registrations(pipe, H, b, nss[i])])
      \o <<Ev(pipe, "toDisk", b, <<>>, <<>>)>>

\* mutant: the dispatch pipeline before the storage-binding pipeline
PipelineAfterSwapped(pipe) ==
  IF pipe = "schema" THEN "dispatch" ELSE IF pipe = "dispatch" THEN "db" ELSE "end"

\* the order of the three pipelines in _build; "end" after the last
PipelineAfter(pipe) ==
  IF pipe = "schema" THEN "db" ELSE IF pipe = "db" THEN "dispatch" ELSE "end"

\* what the beforeExit loop does when builder._build() throws: nothing catches
\* it, the loop is abandoned and the process dies
BuildFailed(b) == [phase |-> "crashed", bi |-> b, bpc |-> "none"]

\* what the beforeExit loop does when builder._build() returns
BuildReturned(b) ==
  IF b < Len(builders)
  THEN [phase |-> "exit", bi |-> b + 1, bpc |-> "schema"]
  ELSE [phase |-> "idle", bi |-> 0, bpc |-> "none"]

\* the event loop is empty: beforeExit is emitted and the handler starts its loop
BeforeExit ==
  /\ phase \in {"script", "idle"}
  /\ ~exc /\ stack = <<>>
  /\ exits < MaxExits
  /\ exits' = exits + 1
  /\ IF builders = <<>>
     THEN phase' = "idle" /\ bi' = 0 /\ bpc' = "none"
     ELSE phase' = "exit" /\ bi' = 1 /\ bpc' = "schema"
  /\ UNCHANGED <<budget, heapVars, stack, exc, calls, trace, resVars>>

\* how many calls of a pipeline can return before one throws: any call to an
\* external compiler can throw
FailurePoints(evs) == 0..(Len(evs) - 1)

\* one pipeline of builders[bi]._build(); k of its calls to the external
\* compiler return, and the next one, if there is one, throws
BuildPipeline ==
  /\ phase = "exit"
  /\ LET evs == Pipeline(bpc, Heap, bi)
     IN  \E k \in FailurePoints(evs) \cup {Len(evs)} :
         /\ calls' = calls \o SubSeq(evs, 1, k)
         /\ LET to == IF k < Len(evs) THEN BuildFailed(bi)
                      ELSE IF PipelineAfter(bpc) # "end"
                           THEN [phase |-> "exit", bi |-> bi, bpc |-> PipelineAfter(bpc)]
                           ELSE BuildReturned(bi)
            IN  phase' = to.phase /\ bi' = to.bi /\ bpc' = to.bpc
  /\ UNCHANGED <<budget, heapVars, stack, exc, exits, trace, resVars>>

Next ==
  \/ NewBuilder(MaxBuilders)
  \/ \E b \in 1..Len(builders), name \in DeclNames : SchemaCall(b, name)
  \/ \E b \in 1..Len(builders), name \in DeclNames : CollectionCall(b, name)
  \/ \E b \in 1..Len(builders), name \in DeclNames, ref \in Refs : DispatchString(b, name, ref)
  \/ \E b \in 1..Len(builders), name \in DeclNames : DispatchCallback(b, name)
  \/ \E s \in InScope, type \in SupportedTypes, name \in FieldNames : TypeMethod(s, type, name)
  \/ \E s \in InScope, name \in FieldNames, ref \in Refs : StructString(s, name, ref)
  \/ \E s \in InScope, name \in FieldNames : StructCallback(s, name)
  \/ \E s \in InScope, key \in KeyArgs : Key(s, key)
  \/ \E s \in InScope, i \in 1..MaxCalls : Optional(s, i)
  \/ \E s \in InScope : Compact(s, TRUE)
  \/ Return
  \/ Throw
  \/ Unwind
  \/ Catch
  \/ Crash
  \/ BeforeExit
  \/ BuildPipeline

Spec == Init /\ [][Next]_vars

\* ---- several Builders in one process --------------------------------------
\* scripts that create several Builders and declare schemas and dispatches on
\* them, and the beforeExit handler over all of them
NextExit ==
  \/ NewBuilder(MaxExitBuilders)
  \/ \E b \in 1..Len(builders), name \in DeclNames : SchemaCall(b, name)
  \/ \E b \in 1..Len(builders), name \in DeclNames, ref \in Refs : DispatchString(b, name, ref)
  \/ \E s \in InScope, type \in SupportedTypes, name \in FieldNames : TypeMethod(s, type, name)
  \/ Return
  \/ BeforeExit
  \/ BuildPipeline

SpecExit == Init /\ [][NextExit]_vars

\* ---- the resolver alone, on every short string ----------------------------
\* names resolved after the first one
ResolveNames ==
  { <<"@", "a", "/", "a", "/", "a">>, <<"@", "a">>, <<"a", "/", "a">>,
    <<At>> \o default \o <<"/", "a">> }

\* a Builder exists and the script is about to resolve a name
InitResolve ==
  LET H == NewBuilderIn([builders |-> <<>>, nsHeap |-> <<>>, schemaHeap |-> <<>>,
                         collHeap |-> <<>>, dispHeap |-> <<>>])
  IN  /\ builders = H.builders
      /\ nsHeap = H.nsHeap
      /\ schemaHeap = H.schemaHeap
      /\ collHeap = H.collHeap
      /\ dispHeap = H.dispHeap
      /\ stack = <<>>
      /\ exc = FALSE
      /\ phase = "script"
      /\ bi = 0
      /\ bpc = "none"
      /\ exits = 0
      /\ calls = <<>>
      /\ trace = <<>>
      /\ budget = 0
      /\ resIn \in {<<name>> : name \in StringsUpTo(MaxLen)}
      /\ resOut = <<>>

\* builder._extractNamespace(name) on the last name given
Resolve ==
  /\ Len(resOut) < Len(resIn)
  /\ LET r == ExtractNamespace(Heap, 1, resIn[Len(resIn)])
     IN  /\ SetHeap(r.heap)
         /\ resOut' = Append(resOut, [namespace |-> r.namespace, name |-> r.name])
  /\ UNCHANGED <<budget, stack, exc, exitVars, trace, resIn>>

\* the script gives another name to resolve
ResolveAnother(name) ==
  /\ Len(resOut) = Len(resIn)
  /\ Len(resIn) < MaxResolves
  /\ resIn' = Append(resIn, name)
  /\ UNCHANGED <<budget, heapVars, stack, exc, exitVars, trace, resOut>>

NextResolve ==
  \/ Resolve
  \/ \E name \in ResolveNames \cup {resIn[1]} : ResolveAnother(name)

SpecResolve == InitResolve /\ [][NextResolve]_vars

\* ---- the example script ------------------------------------------------------
\* the names of the example: a schema, a collection that refers to it and a
\* dispatch that refers to it, all in namespace hello
hello == <<"h", "e", "l", "l", "o">>
fullName == <<"f", "u", "l", "l", "-", "n", "a", "m", "e">>
users == <<"u", "s", "e", "r", "s">>
changeName == <<"c", "h", "a", "n", "g", "e", "-", "n", "a", "m", "e">>
helloFullName == <<At>> \o hello \o <<Slash>> \o fullName
helloUsers == <<At>> \o hello \o <<Slash>> \o users
helloChangeName == <<At>> \o hello \o <<Slash>> \o changeName
firstName == <<"f", "i", "r", "s", "t", "-", "n", "a", "m", "e">>
lastName == <<"l", "a", "s", "t", "-", "n", "a", "m", "e">>
idField == <<"i", "d">>
ageField == <<"a", "g", "e">>
nameField == <<"n", "a", "m", "e">>

\* the API calls of the example
ExampleCalls == 9

\* the example has made that call
Made(op, n) == \E i \in 1..Len(trace) : trace[i].op = op /\ trace[i].name = n

\* the type-method calls the example makes in the build callback of schema s
ExampleFields(s) ==
  IF schemaHeap[s].collection = 0
  THEN {[name |-> firstName, type |-> string], [name |-> lastName, type |-> string]}
  ELSE {[name |-> idField, type |-> uint], [name |-> ageField, type |-> uint]}

\* the calls the example still makes in the build callback of schema s
ExampleCallsLeft(s) ==
  \/ \E f \in ExampleFields(s) : ~Made("field", f.name)
  \/ schemaHeap[s].collection # 0 /\ (~Made("struct", nameField) \/ ~Made("key", <<>>))

\* a script that has made one Builder and makes at most n API calls on it
OneBuilder(n) ==
  LET H == NewBuilderIn([builders |-> <<>>, nsHeap |-> <<>>, schemaHeap |-> <<>>,
                         collHeap |-> <<>>, dispHeap |-> <<>>])
  IN  /\ builders = H.builders
      /\ nsHeap = H.nsHeap
      /\ schemaHeap = H.schemaHeap
      /\ collHeap = H.collHeap
      /\ dispHeap = H.dispHeap
      /\ stack = <<>>
      /\ exc = FALSE
      /\ phase = "script"
      /\ bi = 0
      /\ bpc = "none"
      /\ exits = 0
      /\ calls = <<>>
      /\ trace = <<>>
      /\ budget = n
      /\ resIn = <<>>
      /\ resOut = <<>>

\* require("./index.js")("./spec"): one fresh Builder
InitExample == OneBuilder(ExampleCalls)

\* the three declarations of the example, each made once, in any order, and
\* the calls of their build callbacks, each made once, in any order
NextExample ==
  \/ ~Made("schema", helloFullName) /\ SchemaCall(1, helloFullName)
  \/ ~Made("collection", helloUsers) /\ CollectionCall(1, helloUsers)
  \/ ~Made("dispatch", helloChangeName) /\ DispatchString(1, helloChangeName, helloFullName)
  \/ \E s \in InScope : \E f \in ExampleFields(s) :
       ~Made("field", f.name) /\ TypeMethod(s, f.type, f.name)
  \/ \E s \in InScope :
       /\ schemaHeap[s].collection # 0 /\ ~Made("struct", nameField)
       /\ StructString(s, nameField, helloFullName)
  \/ \E s \in InScope : ~Made("key", <<>>) /\ Key(s, <<idField>>)
  \/ (\A s \in InScope : ~ExampleCallsLeft(s)) /\ Return

SpecExample == InitExample /\ [][NextExample]_vars

\* ---- the fields of schemas ----------------------------------------------------
\* scripts that declare schemas on one Builder and, in their build callbacks,
\* fields, some of which they make optional
InitFields == OneBuilder(MaxFieldCalls)

NextFields ==
  \/ \E n \in DeclNames : SchemaCall(1, n)
  \/ \E s \in InScope, type \in SupportedTypes, n \in FieldNames : TypeMethod(s, type, n)
  \/ \E s \in InScope, n \in FieldNames, ref \in Refs : StructString(s, n, ref)
  \/ \E s \in InScope, i \in 1..MaxFieldCalls : Optional(s, i)
  \/ Return

SpecFields == InitFields /\ [][NextFields]_vars

\* ---- properties ------------------------------------------------------------
\* the positions of x in a sequence
Positions(seq, x) == {i \in 1..Len(seq) : seq[i] = x}

HasSlash(str) == \E i \in 1..Len(str) : str[i] = Slash

\* "@" + namespace name + "/" + local name
Qualified(nsName, local) == <<At>> \o nsName \o <<Slash>> \o local

\* C1: every Schema that was created has fqn "@" + namespace.name + "/" + name
\* and appears exactly once in the schema sequence of its namespace, the
\* sequence being in declaration (construction) order.
C1_SchemaOnceInDeclarationOrder ==
  \A s \in 1..Len(schemaHeap) :
    LET ns == nsHeap[schemaHeap[s].namespace]
    IN  /\ Fqn(Heap, s) = Qualified(ns.name, schemaHeap[s].name)
        /\ Cardinality(Positions(ns.schemas, s)) = 1
        /\ \A i, j \in 1..Len(ns.schemas) : i < j => ns.schemas[i] < ns.schemas[j]

\* the register calls a compiler received for one namespace in one _build
Fed(pipe, run, b, nsName) ==
  SelectSeq(calls, LAMBDA e : /\ e.pipe = pipe /\ e.op = "register" /\ e.run = run
                              /\ e.builder = b /\ e.ns = nsName)

\* the compiler's output was written in that _build
Persisted(pipe, run, b) ==
  \E j \in 1..Len(calls) : /\ calls[j].pipe = pipe /\ calls[j].op = "toDisk"
                           /\ calls[j].run = run /\ calls[j].builder = b

\* the Namespace objects of a Builder, in the order of its Map
NamespacesOf(b) == MapValues(builders[b].namespaces)

\* C2: every Collection owns exactly one schema, of the collection's own
\* namespace and name, so that a collection declared as "@ns/x" has a schema
\* with fqn "@ns/x"; and the schema reference given to the storage-binding
\* compiler for a collection is the fqn of collection.schema.
C2_CollectionSchemaSameFqn ==
  /\ \A c \in 1..Len(collHeap) :
       /\ {s \in 1..Len(schemaHeap) : schemaHeap[s].collection = c} = {collHeap[c].schema}
       /\ schemaHeap[collHeap[c].schema].name = collHeap[c].name
       /\ \A n \in 1..Len(nsHeap) :
            Positions(nsHeap[n].collections, c) # {}
              => schemaHeap[collHeap[c].schema].namespace = n
  /\ \A i \in 1..Len(trace) :
       (trace[i].op = "collection" /\ StartsWithAt(trace[i].name) /\ HasSlash(trace[i].name))
         => Fqn(Heap, trace[i].made) = trace[i].name
  /\ \A b \in 1..Len(builders), run \in 1..exits :
       \A k \in 1..Len(NamespacesOf(b)) :
         LET ns == nsHeap[NamespacesOf(b)[k]]
             fed == Fed("db", run, b, ns.name)
         IN  /\ Len(fed) <= Len(ns.collections)
             /\ Persisted("db", run, b) => Len(fed) = Len(ns.collections)
             /\ \A i \in 1..Len(fed) :
                  fed[i].def.schema = Fqn(Heap, collHeap[ns.collections[i]].schema)

\* a collection declared as "@h/u" was given to the storage-binding compiler
C2_Witness ==
  /\ \E i \in 1..Len(trace) :
       trace[i].op = "collection" /\ trace[i].name = <<"@", "h", "/", "u">>
  /\ \E j \in 1..Len(calls) :
       /\ calls[j].pipe = "db" /\ calls[j].op = "register"
       /\ calls[j].def.schema = <<"@", "h", "/", "u">>

\* C3: in one _build the pipelines run in the order schema, storage binding,
\* dispatch, without interleaving: the first call creates the schema compiler,
\* a compiler is created only right after the previous one wrote its output,
\* and by then every schema (collection) of every namespace was registered.
C3_PipelinesInOrder ==
  \A j \in 1..Len(calls) :
    LET e == calls[j]
    IN  /\ IF j = 1 \/ calls[j - 1].run # e.run \/ calls[j - 1].builder # e.builder
           THEN e.pipe = "schema" /\ e.op = "from"
           ELSE LET d == calls[j - 1]
                IN  \/ d.pipe = e.pipe /\ d.op # "toDisk" /\ e.op # "from"
                    \/ /\ d.op = "toDisk" /\ e.op = "from"
                       /\ <<d.pipe, e.pipe>> \in {<<"schema", "db">>, <<"db", "dispatch">>}
        /\ e.op = "toDisk" =>
             \A k \in 1..Len(NamespacesOf(e.builder)) :
               LET ns == nsHeap[NamespacesOf(e.builder)[k]]
                   fed == Fed(e.pipe, e.run, e.builder, ns.name)
               IN  Len(fed) = Len(IF e.pipe = "schema" THEN ns.schemas
                                  ELSE IF e.pipe = "db" THEN ns.collections
                                  ELSE ns.dispatches)

\* a Builder with a schema, a collection and a dispatch declaration was built
\* to the end
C3_Witness ==
  /\ \A op \in {"schema", "collection", "dispatch"} :
       \E i \in 1..Len(trace) : trace[i].op = op
  /\ \E j \in 1..Len(calls) : calls[j].pipe = "dispatch" /\ calls[j].op = "toDisk"

\* the Namespace mapping of every Builder is well formed: one entry per name,
\* the default namespace among them, every Namespace ever made for the Builder
\* in it under its own name, and none made twice for one name
NamespacesWellFormed ==
  /\ \A b \in 1..Len(builders) :
       LET map == builders[b].namespaces
       IN  /\ \A i, j \in 1..Len(map) : map[i].key = map[j].key => i = j
           /\ \E i \in 1..Len(map) :
                map[i].key = default /\ map[i].value = builders[b].defaultNs
           /\ \A i \in 1..Len(map) :
                nsHeap[map[i].value].name = map[i].key /\ nsHeap[map[i].value].builder = b
  /\ \A n \in 1..Len(nsHeap) :
       /\ nsHeap[n].builder \in 1..Len(builders)
       /\ Positions(NamespacesOf(nsHeap[n].builder), n) # {}
       /\ \A m \in 1..Len(nsHeap) :
            (nsHeap[m].builder = nsHeap[n].builder /\ nsHeap[m].name = nsHeap[n].name)
              => m = n
  /\ \A i \in 1..Len(trace) :
       trace[i].op \in {"schema", "collection", "dispatchCb"} =>
         LET ns == nsHeap[schemaHeap[trace[i].made].namespace]
         IN  /\ ns.builder = trace[i].on
             /\ (trace[i].name[1] = At) => trace[i].name = Qualified(ns.name, schemaHeap[trace[i].made].name)

\* no step removes or replaces an entry of a Namespace mapping, or renames a
\* Namespace
NamespacesKept ==
  /\ \A b \in 1..Len(builders) :
       /\ Len(builders'[b].namespaces) >= Len(builders[b].namespaces)
       /\ \A i \in 1..Len(builders[b].namespaces) :
            builders'[b].namespaces[i] = builders[b].namespaces[i]
  /\ \A n \in 1..Len(nsHeap) :
       nsHeap'[n].name = nsHeap[n].name /\ nsHeap'[n].builder = nsHeap[n].builder

\* C4: a Builder's namespace mapping always holds the default namespace and at
\* most one Namespace per name; the first "@n/..." declaration makes the one
\* Namespace n, later ones resolve to that same object and make no other, and
\* no Namespace is ever removed or replaced.
C4_OneNamespacePerName == []NamespacesWellFormed /\ [][NamespacesKept]_vars

\* two declarations in namespace h were made on a Builder, which has the
\* default namespace and h
C4_Witness ==
  /\ \E i, j \in 1..Len(trace) :
       /\ i < j
       /\ trace[i].op \in {"schema", "collection", "dispatchCb"}
       /\ trace[j].op \in {"schema", "collection", "dispatchCb"}
       /\ trace[i].on = trace[j].on
       /\ trace[i].name = <<"@", "h", "/", "u">> /\ trace[j].name = <<"@", "h", "/", "u">>
       /\ schemaHeap[trace[i].made].namespace = schemaHeap[trace[j].made].namespace
       /\ Len(builders[trace[i].on].namespaces) = 2

\* C5: _extractNamespace gives, for a name whose first segment starts with
\* "@", the namespace named by that segment without the "@" and the remaining
\* segments joined by "/" (name = "@" + ns + "/" + local, ns without "/"; a
\* name without "/" is "@" + ns and has the empty local name); for any other
\* name the default namespace and the name unchanged.
C5_Resolution ==
  \A i \in 1..Len(resOut) :
    LET name == resIn[i]
        r == resOut[i]
        nsName == nsHeap[r.namespace].name
    IN  IF name # <<>> /\ name[1] = At
        THEN /\ ~HasSlash(nsName)
             /\ IF HasSlash(name)
                THEN name = Qualified(nsName, r.name)
                ELSE name = <<At>> \o nsName /\ r.name = <<>>
        ELSE /\ r.namespace = builders[1].defaultNs
             /\ nsName = default
             /\ r.name = name

\* "@a/a/a" was resolved to namespace a and local name "a/a", and "a/a" to the
\* default namespace and "a/a"
C5_Witness ==
  /\ \E i \in 1..Len(resOut) :
       /\ resIn[i] = <<"@", "a", "/", "a", "/", "a">>
       /\ resOut[i].name = <<"a", "/", "a">>
       /\ nsHeap[resOut[i].namespace].name = <<"a">>
  /\ \E i \in 1..Len(resOut) :
       /\ resIn[i] = <<"a", "/", "a">>
       /\ resOut[i].name = <<"a", "/", "a">>
       /\ resOut[i].namespace = builders[1].defaultNs

\* a step in which a library call of that kind calls its callback
Called(kind) == Len(stack') = Len(stack) + 1 /\ stack'[Len(stack')].kind = kind

\* a step in which the callback of a library call of that kind returns
Returned(kind) ==
  Len(stack') = Len(stack) - 1 /\ stack[Len(stack)].kind = kind /\ ~exc

\* in the step, s is a new Schema appended to the schemas of namespace n, and
\* nothing else happens to schemas
OneSchemaMade(s, n) ==
  /\ s = Len(schemaHeap) + 1
  /\ Len(schemaHeap') = s
  /\ schemaHeap'[s].namespace = n
  /\ schemaHeap'[s].fields = <<>>
  /\ nsHeap'[n].schemas = (IF n <= Len(nsHeap) THEN nsHeap[n].schemas ELSE <<>>) \o <<s>>
  /\ \A t \in 1..Len(schemaHeap) : schemaHeap'[t] = schemaHeap[t]
  /\ \A m \in 1..Len(nsHeap) : m # n => nsHeap'[m].schemas = nsHeap[m].schemas

\* what a step does when it is the call or the return of struct(fieldName, cb):
\* both conjuncts of C6
StructStep ==
  /\ Called("struct") =>
       LET f == stack'[Len(stack')]
           c == trace'[f.call]
           P == c.on
       IN  /\ OneSchemaMade(f.schema, schemaHeap[P].namespace)
           /\ schemaHeap'[f.schema].name = schemaHeap[P].name \o <<Slash>> \o c.name
  /\ Returned("struct") =>
       LET f == stack[Len(stack)]
           c == trace[f.call]
           P == c.on
       IN  /\ schemaHeap' =
                [schemaHeap EXCEPT ![P].fields = Append(@,
                   [name |-> c.name,
                    type |-> Qualified(nsHeap[schemaHeap[P].namespace].name,
                                       schemaHeap[P].name \o <<Slash>> \o c.name),
                    required |-> TRUE])]
           /\ nsHeap' = nsHeap

\* C6: struct(fieldName, callback) on a schema P makes exactly one new Schema,
\* in P's namespace and named P.name + "/" + fieldName, runs the callback on
\* it and, when the callback has returned, appends to P exactly one field
\* named fieldName whose type is "@" + namespace + "/" + P.name + "/" + fieldName.
C6_StructMakesNestedSchema == [][StructStep]_vars

\* struct "a" in "@h/u" made schema "u/a" and a field of type "@h/u/a", and
\* struct "id" inside it made a field of type "@h/u/a/id"
C6_Witness ==
  \E s, t \in 1..Len(schemaHeap) :
    /\ schemaHeap[s].name = <<"u">>
    /\ nsHeap[schemaHeap[s].namespace].name = <<"h">>
    /\ schemaHeap[s].fields =
         <<[name |-> <<"a">>, type |-> <<"@", "h", "/", "u", "/", "a">>, required |-> TRUE]>>
    /\ schemaHeap[t].name = <<"u", "/", "a">>
    /\ schemaHeap[t].namespace = schemaHeap[s].namespace
    /\ schemaHeap[t].fields =
         <<[name |-> <<"i", "d">>,
            type |-> <<"@", "h", "/", "u", "/", "a", "/", "i", "d">>, required |-> TRUE]>>

\* the field-declaring calls on schema s that have returned
FieldCalls(s) ==
  {i \in 1..Len(trace) : /\ trace[i].op \in {"field", "struct", "structCb"}
                         /\ trace[i].on = s /\ trace[i].ret > 0}

\* the type of the field that call i declares
DeclaredType(i) ==
  IF trace[i].op = "structCb" THEN Fqn(Heap, trace[i].made) ELSE trace[i].arg

\* the schema compiler is given the fields of every schema as they are
FieldsFedInOrder ==
  \A b \in 1..Len(builders), run \in 1..exits :
    \A k \in 1..Len(NamespacesOf(b)) :
      LET ns == nsHeap[NamespacesOf(b)[k]]
          fed == Fed("schema", run, b, ns.name)
      IN  /\ Len(fed) <= Len(ns.schemas)
          /\ \A i \in 1..Len(fed) : fed[i].def.fields = schemaHeap[ns.schemas[i]].fields

\* C7 as claimed: the fields of a schema are the field-declaring calls made on
\* it, one field per call, in the order in which the calls were made, and so
\* they are given to the schema compiler.
C7_FieldsInCallOrder ==
  /\ \A s \in 1..Len(schemaHeap) :
       /\ Len(schemaHeap[s].fields) = Cardinality(FieldCalls(s))
       /\ \A i \in FieldCalls(s) :
            LET k == Cardinality({j \in FieldCalls(s) : j <= i})
            IN  /\ schemaHeap[s].fields[k].name = trace[i].name
                /\ schemaHeap[s].fields[k].type = DeclaredType(i)
  /\ FieldsFedInOrder

\* C7 as amended: the fields of a schema are the field-declaring calls made on
\* it, one field per call, in the order in which the calls returned (a struct
\* call in callback form returns after its callback), and so they are given to
\* the schema compiler.
C7_FieldsInReturnOrder ==
  /\ \A s \in 1..Len(schemaHeap) :
       /\ Len(schemaHeap[s].fields) = Cardinality(FieldCalls(s))
       /\ \A i \in FieldCalls(s) :
            LET k == Cardinality({j \in FieldCalls(s) : trace[j].ret <= trace[i].ret})
            IN  /\ schemaHeap[s].fields[k].name = trace[i].name
                /\ schemaHeap[s].fields[k].type = DeclaredType(i)
  /\ FieldsFedInOrder

\* a schema got a field from a type method called inside the callback of a
\* struct call on the same schema, then the struct's field, and was given to
\* the schema compiler
C7_Witness ==
  \E s \in 1..Len(schemaHeap) :
    /\ Len(schemaHeap[s].fields) = 2
    /\ \E i, j \in FieldCalls(s) :
         /\ i < j /\ trace[j].ret < trace[i].ret
         /\ trace[i].op = "structCb" /\ trace[j].op = "field"
         /\ schemaHeap[s].fields[1].name = trace[j].name
         /\ schemaHeap[s].fields[2].name = trace[i].name
    /\ \E e \in 1..Len(calls) :
         /\ calls[e].pipe = "schema" /\ calls[e].op = "register"
         /\ calls[e].def.fields = schemaHeap[s].fields

\* in the state after the step, name given to Builder b resolves to
\* Namespace n and local name local
ResolvesTo(b, name, n, local) ==
  /\ n \in 1..Len(nsHeap')
  /\ nsHeap'[n].builder = b
  /\ \E i \in 1..Len(builders'[b].namespaces) : builders'[b].namespaces[i].value = n
  /\ IF name[1] = At
     THEN name = Qualified(nsHeap'[n].name, local)
     ELSE n = builders'[b].defaultNs /\ local = name

\* in the step, the Dispatch d is made and appended to the dispatches of
\* namespace n, and nothing else happens to dispatches
OneDispatchMade(d, n) ==
  /\ d = Len(dispHeap) + 1
  /\ Len(dispHeap') = d
  /\ \A e \in 1..Len(dispHeap) : dispHeap'[e] = dispHeap[e]
  /\ nsHeap'[n].dispatches = (IF n <= Len(nsHeap) THEN nsHeap[n].dispatches ELSE <<>>) \o <<d>>
  /\ \A m \in 1..Len(nsHeap) : m # n => nsHeap'[m].dispatches = nsHeap[m].dispatches

\* the step is a call of dispatch(name, ref) with a string ref
DispatchStringStep ==
  /\ Len(trace') = Len(trace) + 1
  /\ trace'[Len(trace')].op = "dispatch"

\* what a step does to dispatches when it is a dispatch call, the return of a
\* dispatch callback, or neither: the conjuncts of C8
DispatchStep ==
  /\ DispatchStringStep =>
       LET c == trace'[Len(trace')]
           d == Len(dispHeap) + 1
       IN  /\ \E n \in 1..Len(nsHeap') :
                /\ OneDispatchMade(d, n)
                /\ ResolvesTo(c.on, c.name, n, dispHeap'[d].name)
           /\ dispHeap'[d].requestType = c.arg
           /\ schemaHeap' = schemaHeap
  /\ Called("dispatch") =>
       LET f == stack'[Len(stack')]
           c == trace'[f.call]
       IN  /\ OneSchemaMade(f.schema, schemaHeap'[f.schema].namespace)
           /\ ResolvesTo(c.on, c.name, schemaHeap'[f.schema].namespace,
                         schemaHeap'[f.schema].name)
           /\ dispHeap' = dispHeap
  /\ Returned("dispatch") =>
       LET f == stack[Len(stack)]
           S == trace[f.call].made
           d == Len(dispHeap) + 1
       IN  /\ OneDispatchMade(d, schemaHeap[S].namespace)
           /\ dispHeap'[d] =
                [name |-> schemaHeap[S].name,
                 requestType |-> Qualified(nsHeap[schemaHeap[S].namespace].name,
                                           schemaHeap[S].name)]
           /\ schemaHeap' = schemaHeap
  /\ ~(DispatchStringStep \/ Returned("dispatch")) =>
       /\ dispHeap' = dispHeap
       /\ \A n \in 1..Len(nsHeap) : nsHeap'[n].dispatches = nsHeap[n].dispatches

\* C8: dispatch(name, ref) with a string makes exactly one Dispatch, with the
\* resolved local name and requestType = ref, in the dispatches of the resolved
\* namespace, and no Schema; dispatch(name, cb) makes exactly one Schema with
\* the resolved local name in the resolved namespace and, when cb has returned,
\* exactly one Dispatch with that name and requestType = the schema's fqn in
\* that namespace's dispatches; no other step makes a Dispatch.
C8_DispatchRegistersOne == [][DispatchStep]_vars

\* dispatch("@h/u", cb) has returned and its Dispatch refers to "@h/u", and a
\* dispatch with a string reference was made as well
C8_Witness ==
  /\ \E i \in 1..Len(trace) :
       /\ trace[i].op = "dispatchCb" /\ trace[i].ret > 0
       /\ trace[i].name = <<"@", "h", "/", "u">>
       /\ \E d \in 1..Len(dispHeap) :
            dispHeap[d] = [name |-> <<"u">>, requestType |-> <<"@", "h", "/", "u">>]
  /\ \E j \in 1..Len(trace) : trace[j].op = "dispatch" /\ trace[j].name = <<"u">>
  /\ Len(dispHeap) = 2

\* the compact(true) calls made on schema s
CompactCalls(s) ==
  {i \in 1..Len(trace) : trace[i].op = "compact" /\ trace[i].on = s /\ trace[i].arg = TRUE}

\* C9: a schema on which compact was never called is not compact, a schema on
\* which compact(true) was called is compact, the call returns without error,
\* and the schema compiler is given that value.
C9_CompactTakesEffect ==
  /\ \A s \in 1..Len(schemaHeap) :
       /\ schemaHeap[s].compact = (CompactCalls(s) # {})
       /\ \A i \in CompactCalls(s) : trace[i].ret > 0
  /\ \A b \in 1..Len(builders), run \in 1..exits :
       \A k \in 1..Len(NamespacesOf(b)) :
         LET ns == nsHeap[NamespacesOf(b)[k]]
             fed == Fed("schema", run, b, ns.name)
         IN  \A i \in 1..Len(fed) : fed[i].def.compact = (CompactCalls(ns.schemas[i]) # {})

\* C10: when the _build of one Builder fails, the _build of every other
\* Builder of the process still runs.
C10_FailureIsolated ==
  (phase = "crashed" /\ bi > 0) =>
    \A j \in 1..Len(builders) :
      j # bi => \E e \in 1..Len(calls) : calls[e].builder = j /\ calls[e].run = exits

\* the _build runs of Builder b that started: the calls creating its schema compiler
BuildStarts(b) ==
  {j \in 1..Len(calls) : /\ calls[j].builder = b /\ calls[j].pipe = "schema"
                         /\ calls[j].op = "from"}

\* C11: every Builder is finalized exactly once and in creation order: no
\* Builder's _build runs a second time, however often beforeExit is delivered,
\* within a delivery the Builders are built in the order of their creation,
\* and when the handler has returned every Builder was built.
C11_FinalizedOnce ==
  /\ \A b \in 1..Len(builders) : Cardinality(BuildStarts(b)) <= 1
  /\ \A i, j \in 1..Len(calls) :
       (i < j /\ calls[i].run = calls[j].run) => calls[i].builder <= calls[j].builder
  /\ (phase = "idle" /\ exits > 0) =>
       \A b \in 1..Len(builders) : Cardinality(BuildStarts(b)) = 1

\* the callback of call i threw: the call left the stack without returning
Thrown(i) ==
  /\ trace[i].ret = 0
  /\ \A k \in 1..Len(stack) : stack[k].call # i

\* every schema (collection) of every namespace of every Builder is given to
\* the schema (storage-binding) compiler, with its fields (key) as they are
AllFed ==
  \A b \in 1..Len(builders), run \in 1..exits :
    \A k \in 1..Len(NamespacesOf(b)) :
      LET ns == nsHeap[NamespacesOf(b)[k]]
          fedS == Fed("schema", run, b, ns.name)
          fedC == Fed("db", run, b, ns.name)
      IN  /\ Persisted("schema", run, b) => Len(fedS) = Len(ns.schemas)
          /\ Persisted("db", run, b) => Len(fedC) = Len(ns.collections)
          /\ \A i \in 1..Len(fedS) :
               /\ i <= Len(ns.schemas)
               /\ fedS[i].def.name = schemaHeap[ns.schemas[i]].name
               /\ fedS[i].def.fields = schemaHeap[ns.schemas[i]].fields
          /\ \A i \in 1..Len(fedC) :
               /\ i <= Len(ns.collections)
               /\ fedC[i].def.name = collHeap[ns.collections[i]].name

\* C12: from the moment schema(name, cb) or collection(name, cb) calls cb, the
\* Schema is in the schema sequence of its namespace (and the Collection in
\* its collection sequence), whether cb is running, has returned or has
\* thrown; it has the fields of the field calls that returned on it; and a
\* finalization gives every such Schema and Collection to the compilers.
C12_EagerRegistration ==
  /\ \A i \in 1..Len(trace) :
       trace[i].op \in {"schema", "collection"} =>
         LET s == trace[i].made
             ns == nsHeap[schemaHeap[s].namespace]
         IN  /\ Positions(ns.schemas, s) # {}
             /\ ns.builder = trace[i].on
             /\ trace[i].op = "collection" =>
                  /\ schemaHeap[s].collection # 0
                  /\ Positions(ns.collections, schemaHeap[s].collection) # {}
             /\ Len(schemaHeap[s].fields) = Cardinality(FieldCalls(s))
             /\ \A j \in FieldCalls(s) :
                  \E k \in 1..Len(schemaHeap[s].fields) :
                    /\ schemaHeap[s].fields[k].name = trace[j].name
                    /\ schemaHeap[s].fields[k].type = DeclaredType(j)
  /\ AllFed

\* the callback of a schema() call threw, the callback of a collection() call
\* threw after declaring a field, the script caught both, and the finalization
\* gave that Schema, that Collection and its schema with the field to the
\* compilers
C12_Witness ==
  /\ \E i \in 1..Len(trace) :
       /\ trace[i].op = "schema" /\ Thrown(i)
       /\ \E e \in 1..Len(calls) :
            /\ calls[e].pipe = "schema" /\ calls[e].op = "register"
            /\ calls[e].def.name = schemaHeap[trace[i].made].name
            /\ calls[e].def.fields = <<>>
  /\ \E i \in 1..Len(trace) :
       /\ trace[i].op = "collection" /\ Thrown(i)
       /\ Len(schemaHeap[trace[i].made].fields) = 1
       /\ \E e \in 1..Len(calls) :
            /\ calls[e].pipe = "schema" /\ calls[e].op = "register"
            /\ calls[e].def.fields = schemaHeap[trace[i].made].fields
       /\ \E e \in 1..Len(calls) :
            /\ calls[e].pipe = "db" /\ calls[e].op = "register"
            /\ calls[e].def.name = schemaHeap[trace[i].made].name
  /\ \E e \in 1..Len(calls) : calls[e].pipe = "db" /\ calls[e].op = "toDisk"

\* the example script has run to its end
ExampleDone == Len(trace) = ExampleCalls /\ stack = <<>>

\* C13: after the example script (schema "@hello/full-name" with fields
\* first-name and last-name, collection "@hello/users" with key "id", fields
\* id and age and struct name referring to "@hello/full-name", dispatch
\* "@hello/change-name" referring to "@hello/full-name") the schema sequence
\* of namespace hello has 3 entries, all named full-name or users, its
\* collection sequence is the one Collection users with key <<"id">>, its
\* dispatch sequence is the one Dispatch change-name with requestType
\* "@hello/full-name", and the default namespace is empty.
C13_RoundTrip ==
  ExampleDone =>
    LET h == MapGet(builders[1].namespaces, hello)
        d == nsHeap[builders[1].defaultNs]
    IN  /\ Len(builders[1].namespaces) = 2
        /\ h # 0
        /\ Len(nsHeap[h].schemas) = 3
        /\ \A i \in 1..3 : schemaHeap[nsHeap[h].schemas[i]].name \in {fullName, users}
        /\ Len(nsHeap[h].collections) = 1
        /\ collHeap[nsHeap[h].collections[1]].name = users
        /\ collHeap[nsHeap[h].collections[1]].key = <<idField>>
        /\ Len(nsHeap[h].dispatches) = 1
        /\ dispHeap[nsHeap[h].dispatches[1]] =
             [name |-> changeName, requestType |-> helloFullName]
        /\ d.schemas = <<>> /\ d.collections = <<>> /\ d.dispatches = <<>>

\* the example has run to its end, the dispatch declared first and the schema
\* last: full-name has its two fields and users its three
C13_Witness ==
  /\ ExampleDone
  /\ trace[1].op = "dispatch" /\ trace[2].op = "collection"
  /\ \E s, u \in 1..Len(schemaHeap) :
       /\ schemaHeap[s].name = fullName /\ Len(schemaHeap[s].fields) = 2
       /\ schemaHeap[u].name = users /\ Len(schemaHeap[u].fields) = 3
       /\ schemaHeap[u].fields[3] =
            [name |-> nameField, type |-> helloFullName, required |-> TRUE]

\* the optional() calls made on the k-th field of schema s
OptionalCalls(s, k) ==
  {i \in 1..Len(trace) : trace[i].op = "optional" /\ trace[i].on = s /\ trace[i].arg = k}

\* a field is required unless optional() was called on it, once or more
RequiredUnlessOptional ==
  \A s \in 1..Len(schemaHeap) :
    \A k \in 1..Len(schemaHeap[s].fields) :
      schemaHeap[s].fields[k].required = (OptionalCalls(s, k) = {})

\* what a step does when it is a call of optional(): only the required flag
\* of the receiver changes, and the receiver is returned
OptionalStep ==
  (Len(trace') = Len(trace) + 1 /\ trace'[Len(trace')].op = "optional") =>
    LET c == trace'[Len(trace')]
        s == c.on
        k == c.arg
    IN  /\ Len(schemaHeap') = Len(schemaHeap)
        /\ \A t \in 1..Len(schemaHeap) :
             /\ schemaHeap'[t].name = schemaHeap[t].name
             /\ schemaHeap'[t].namespace = schemaHeap[t].namespace
             /\ schemaHeap'[t].compact = schemaHeap[t].compact
             /\ schemaHeap'[t].collection = schemaHeap[t].collection
             /\ Len(schemaHeap'[t].fields) = Len(schemaHeap[t].fields)
             /\ \A j \in 1..Len(schemaHeap[t].fields) :
                  IF t = s /\ j = k
                  THEN /\ schemaHeap'[t].fields[j].name = schemaHeap[t].fields[j].name
                       /\ schemaHeap'[t].fields[j].type = schemaHeap[t].fields[j].type
                       /\ schemaHeap'[t].fields[j].required = FALSE
                  ELSE schemaHeap'[t].fields[j] = schemaHeap[t].fields[j]
        /\ UNCHANGED <<builders, nsHeap, collHeap, dispHeap>>
        /\ c.returns = [schema |-> s, index |-> k]

\* C14: every field is created with required = true, and optional() on a field
\* sets only its required flag to false: its name, type and position, every
\* other field and every schema are unchanged, and the call returns the field
\* it was called on, so that calling it again changes nothing.
C14_OptionalOnlyRequired == []RequiredUnlessOptional /\ [][OptionalStep]_vars

\* optional() was called twice on the first of two fields of a schema: it is
\* not required, the second field still is
C14_Witness ==
  \E s \in 1..Len(schemaHeap) :
    /\ Len(schemaHeap[s].fields) = 2
    /\ Cardinality(OptionalCalls(s, 1)) = 2
    /\ ~schemaHeap[s].fields[1].required
    /\ schemaHeap[s].fields[2].required
    /\ \A i \in OptionalCalls(s, 1) : trace[i].returns = [schema |-> s, index |-> 1]

\* the key calls made on the schema of Collection c
KeyCalls(c) ==
  {i \in 1..Len(trace) : trace[i].op = "key" /\ trace[i].on = collHeap[c].schema}

\* C15: the key of a Collection is the list of names given to the last key
\* call on its schema, in the order given, and the empty list when key was
\* never called on it; a key call returns whether or not fields of those names
\* are declared; and the storage-binding compiler is given that key.
C15_KeyRecorded ==
  /\ \A c \in 1..Len(collHeap) :
       collHeap[c].key =
         IF KeyCalls(c) = {} THEN <<>>
         ELSE trace[CHOOSE i \in KeyCalls(c) : \A j \in KeyCalls(c) : j <= i].arg
  /\ \A i \in 1..Len(trace) : trace[i].op = "key" => trace[i].ret > 0
  /\ \A b \in 1..Len(builders), run \in 1..exits :
       \A k \in 1..Len(NamespacesOf(b)) :
         LET ns == nsHeap[NamespacesOf(b)[k]]
             fed == Fed("db", run, b, ns.name)
         IN  \A i \in 1..Len(fed) :
               /\ i <= Len(ns.collections)
               /\ fed[i].def.key = collHeap[ns.collections[i]].key

\* key("id") and then key("a", "id") were called on a collection's schema that
\* has no fields, and the storage-binding compiler was given <<"a", "id">>
C15_Witness ==
  \E c \in 1..Len(collHeap) :
    /\ \E i, j \in KeyCalls(c) :
         i < j /\ trace[i].arg = <<<<"i", "d">>>> /\ trace[j].arg = <<<<"a">>, <<"i", "d">>>>
    /\ schemaHeap[collHeap[c].schema].fields = <<>>
    /\ collHeap[c].key = <<<<"a">>, <<"i", "d">>>>
    /\ \E e \in 1..Len(calls) :
         /\ calls[e].pipe = "db" /\ calls[e].op = "register"
         /\ calls[e].def.key = <<<<"a">>, <<"i", "d">>>>

\* the step is a call of struct(fieldName, ref) with a string ref
StructStringStep ==
  /\ Len(trace') = Len(trace) + 1
  /\ trace'[Len(trace')].op = "struct"

\* a Schema with that fqn exists
Declared(ref) == \E s \in 1..Len(schemaHeap) : Fqn(Heap, s) = ref

\* what a step does when it is a call of struct or dispatch with a string
\* reference: the conjuncts of C16
StringRefStep ==
  /\ StructStringStep =>
       LET c == trace'[Len(trace')]
       IN  /\ schemaHeap' =
                [schemaHeap EXCEPT ![c.on].fields =
                   Append(@, [name |-> c.name, type |-> c.arg, required |-> TRUE])]
           /\ UNCHANGED <<builders, nsHeap, collHeap, dispHeap>>
           /\ c.ret > 0 /\ ~exc'
  /\ DispatchStringStep =>
       LET c == trace'[Len(trace')]
           d == Len(dispHeap) + 1
       IN  /\ Len(dispHeap') = d
           /\ dispHeap'[d].requestType = c.arg
           /\ schemaHeap' = schemaHeap
           /\ Len(nsHeap') <= Len(nsHeap) + 1
           /\ \A n \in (Len(nsHeap) + 1)..Len(nsHeap') :
                c.name = Qualified(nsHeap'[n].name, dispHeap'[d].name)
           /\ c.ret > 0 /\ ~exc'

\* C16: struct(fieldName, ref) with a string appends exactly one field, of
\* type ref, and dispatch(name, ref) with a string registers a Dispatch with
\* requestType ref; neither makes a Schema or a Namespace for ref (dispatch
\* makes at most the Namespace of its own name) and neither raises an error,
\* whether or not a Schema with that fqn exists.
C16_StringRefsUnchecked == [][StringRefStep]_vars

\* a dispatch and a struct field refer to "@h/u" by string, and there is no
\* Schema "@h/u" and no Namespace h
C16_Witness ==
  /\ \E d \in 1..Len(dispHeap) : dispHeap[d].requestType = <<"@", "h", "/", "u">>
  /\ \E s \in 1..Len(schemaHeap) :
       \E k \in 1..Len(schemaHeap[s].fields) :
         schemaHeap[s].fields[k].type = <<"@", "h", "/", "u">>
  /\ ~Declared(<<"@", "h", "/", "u">>)
  /\ \A n \in 1..Len(nsHeap) : nsHeap[n].name = default

\* the struct(fieldName, cb) calls made so far
StructCallbackCalls == {i \in 1..Len(trace) : trace[i].op = "structCb"}

\* C17: the nested schema made by struct(fieldName, cb) is in the namespace of
\* its parent and comes after every entry of the parent in that namespace's
\* schema sequence, at every nesting depth; so whenever the schema compiler
\* is given the nested schema it was given the parent before, in the same
\* _build.
C17_ParentBeforeNested ==
  \A c \in StructCallbackCalls :
    LET P == trace[c].on
        N == trace[c].made
        n == schemaHeap[P].namespace
        ns == nsHeap[n]
    IN  /\ schemaHeap[N].namespace = n
        /\ Positions(ns.schemas, P) # {} /\ Positions(ns.schemas, N) # {}
        /\ \A i \in Positions(ns.schemas, P), j \in Positions(ns.schemas, N) : i < j
        /\ \A run \in 1..exits :
             LET fed == Fed("schema", run, ns.builder, ns.name)
             IN  \A j \in 1..Len(fed) :
                   (j <= Len(ns.schemas) /\ ns.schemas[j] = N) =>
                     \E i \in 1..(j - 1) :
                       ns.schemas[i] = P /\ fed[i].def.name = schemaHeap[P].name

\* struct inside struct inside a schema: "u", "u/a" and "u/a/a" are in the
\* schema sequence in that order and were given to the schema compiler
C17_Witness ==
  /\ \E c, d \in StructCallbackCalls : trace[d].on = trace[c].made
  /\ \E e1, e2, e3 \in 1..Len(calls) :
       /\ e1 < e2 /\ e2 < e3
       /\ calls[e1].op = "register" /\ calls[e1].def.name = <<"u">>
       /\ calls[e2].op = "register" /\ calls[e2].def.name = <<"u", "/", "a">>
       /\ calls[e3].op = "register" /\ calls[e3].def.name = <<"u", "/", "a", "/", "a">>

\* the Dispatch objects are those of the dispatch calls that returned, each
\* in the dispatch sequence of exactly one namespace
DispatchesOfReturnedCalls ==
  /\ Len(dispHeap) =
       Cardinality({i \in 1..Len(trace) :
                      trace[i].op \in {"dispatch", "dispatchCb"} /\ trace[i].ret > 0})
  /\ \A d \in 1..Len(dispHeap) :
       \E n \in 1..Len(nsHeap) :
         /\ Cardinality(Positions(nsHeap[n].dispatches, d)) = 1
         /\ \A m \in 1..Len(nsHeap) : m # n => Positions(nsHeap[m].dispatches, d) = {}
  /\ \A n \in 1..Len(nsHeap) :
       \A k \in 1..Len(nsHeap[n].dispatches) : nsHeap[n].dispatches[k] \in 1..Len(dispHeap)

\* C18: when the callback of dispatch(name, cb) throws, the inline Schema stays
\* in the schema sequence of its namespace and no Dispatch is made for the
\* call; when the callback of struct(fieldName, cb) throws, the nested Schema
\* stays in the schema sequence of its namespace and no field is appended to
\* the parent for the call.
C18_PartialStateOnThrow ==
  /\ DispatchesOfReturnedCalls
  /\ \A i \in 1..Len(trace) :
       (trace[i].op \in {"dispatchCb", "structCb"} /\ Thrown(i)) =>
         LET S == trace[i].made
         IN  /\ Cardinality(Positions(nsHeap[schemaHeap[S].namespace].schemas, S)) = 1
             /\ trace[i].op = "dispatchCb" =>
                  \A d \in 1..Len(dispHeap) :
                    (dispHeap[d].requestType = Fqn(Heap, S)) =>
                      \E j \in 1..Len(trace) :
                        /\ j # i /\ trace[j].ret > 0
                        /\ \/ trace[j].op = "dispatch" /\ trace[j].arg = Fqn(Heap, S)
                           \/ /\ trace[j].op = "dispatchCb"
                              /\ Fqn(Heap, trace[j].made) = Fqn(Heap, S)
  /\ \A s \in 1..Len(schemaHeap) : Len(schemaHeap[s].fields) = Cardinality(FieldCalls(s))

\* the callback of a dispatch call threw and there is no Dispatch; the
\* callback of a struct call threw and its parent, whose own callback
\* returned, has no field; both inline schemas are registered
C18_Witness ==
  /\ \E i \in 1..Len(trace) : trace[i].op = "dispatchCb" /\ Thrown(i)
  /\ dispHeap = <<>>
  /\ \E i, p \in 1..Len(trace) :
       /\ trace[i].op = "structCb" /\ Thrown(i)
       /\ trace[p].made = trace[i].on /\ trace[p].ret > 0
       /\ schemaHeap[trace[i].on].fields = <<>>
       /\ Positions(nsHeap[schemaHeap[trace[i].made].namespace].schemas, trace[i].made) # {}
  /\ ~exc /\ stack = <<>>

====
